---- MODULE Spec2Model ----
(***************************************************************************)
(* A model of plydata/utils.py: the context managers regular_index and     *)
(* temporary_key, and the pure functions unique and collapse_multiindex.   *)
(*                                                                         *)
(* Each of the four has a specification of its own (SpecIndex, SpecKey,    *)
(* SpecUnique, SpecCollapse); the variables of the other three stay at     *)
(* their idle values.                                                      *)
(*                                                                         *)
(* A dataframe is modelled by its row index, the only part regular_index   *)
(* reads or writes: the index class (pd.RangeIndex or another class,       *)
(* here Int64Index) and the row labels in order.  The row count of a frame *)
(* is the length of its index.  A string is a sequence of characters, so   *)
(* that str.join is concatenation and two different token tuples can join  *)
(* to the same string.                                                     *)
(***************************************************************************)
EXTENDS Integers, Sequences, FiniteSets

VARIABLES
    pc,              \* position of the running call
    dfs,             \* regular_index: the index of each frame in *dfs
    original_index,  \* regular_index: local original_index
    have_bad_index,  \* regular_index: local have_bad_index
    pending,         \* regular_index: exception the with-body raised, or None
    propagated,      \* regular_index: what leaves the with statement
    d,               \* temporary_key: the dictionary
    scopes,          \* temporary_key: the open contexts, innermost last
    tk_error,        \* temporary_key: exception raised by a closing context
    lst,             \* unique: the argument
    u_out,           \* unique: the returned list
    midx,            \* collapse_multiindex: the MultiIndex
    sep,             \* collapse_multiindex: the separator
    cm_out           \* collapse_multiindex: the outcome

vars == <<pc, dfs, original_index, have_bad_index, pending, propagated,
          d, scopes, tk_error, lst, u_out, midx, sep, cm_out>>

indexVars == <<dfs, original_index, have_bad_index, pending, propagated>>
keyVars == <<d, scopes, tk_error>>
uniqueVars == <<lst, u_out>>
collapseVars == <<midx, sep, cm_out>>

None == "None"

SeqsUpTo(S, n) == UNION {[1..m -> S] : m \in 0..n}

IdleIndex ==
    /\ dfs = <<>> /\ original_index = <<>> /\ have_bad_index = <<>>
    /\ pending = None /\ propagated = None

IdleKey == d = <<>> /\ scopes = <<>> /\ tk_error = None

IdleUnique == lst = <<>> /\ u_out = <<>>

IdleCollapse ==
    /\ midx = [nlevels |-> 1, cols |-> <<>>]
    /\ sep = <<>>
    /\ cm_out = [raised |-> None, columns |-> <<>>]

(***************************************************************************)
(* regular_index                                                           *)
(***************************************************************************)

\* Bounds of the model: frames per call, rows per frame.
MaxDfs == 2
MaxRows == 2

Labels == {0, 1}
RangeStarts == {0, 1}
RangeSteps == {1, 2}
Exceptions == {"ValueError", "KeyError"}

\* A pd.RangeIndex of n labels: start, start + step, ...
RangeIndex(start, step, n) ==
    [kind |-> "RangeIndex", labels |-> [k \in 1..n |-> start + step * (k - 1)]]

Int64Index(labels) == [kind |-> "Int64Index", labels |-> labels]

Indexes ==
    {RangeIndex(s, t, n) : s \in RangeStarts, t \in RangeSteps, n \in 0..MaxRows}
    \cup {Int64Index(l) : l \in SeqsUpTo(Labels, MaxRows)}

\* len(df.index)
RowCount(idx) == Len(idx.labels)

\* "A regular index is of the form RangeIndex(start=0, stop=n, step=1)"
Regular(idx) == idx = RangeIndex(0, 1, RowCount(idx))

\* not isinstance(df.index, pd.RangeIndex)
BadIndex(idx) == idx.kind # "RangeIndex"

\* df.reset_index(drop=True, inplace=True): the default index 0..n-1
reset_index(idx) == RangeIndex(0, 1, RowCount(idx))

\* if bad and len(df.index) == len(idx): df.index = idx
RestoredIndexNoLenCheck(cur, bad, idx) == IF bad THEN idx ELSE cur
RestoredIndexAnyFrame(cur, bad, idx) ==
    IF RowCount(cur) = RowCount(idx) THEN idx ELSE cur
RestoredIndex(cur, bad, idx) ==
    IF bad /\ RowCount(cur) = RowCount(idx) THEN idx ELSE cur

InitIndex ==
    /\ pc = "ready"
    /\ dfs \in SeqsUpTo(Indexes, MaxDfs)
    /\ original_index = <<>> /\ have_bad_index = <<>>
    /\ pending = None /\ propagated = None
    /\ IdleKey /\ IdleUnique /\ IdleCollapse

\* regular_index up to its yield
Enter ==
    /\ pc = "ready"
    /\ original_index' = dfs
    /\ have_bad_index' = [k \in 1..Len(dfs) |-> BadIndex(dfs[k])]
    /\ dfs' = [k \in 1..Len(dfs) |->
                  IF BadIndex(dfs[k]) THEN reset_index(dfs[k]) ELSE dfs[k]]
    /\ pc' = "yielded"
    /\ UNCHANGED <<pending, propagated>>
    /\ UNCHANGED <<keyVars, uniqueVars, collapseVars>>

\* The with-body changes a frame in place: any labels, any row count.  The
\* guard handles each frame on its own, so the body's effect is taken on one
\* frame of the call.
WrappedOp(k, idx) ==
    /\ pc = "yielded"
    /\ k \in 1..Len(dfs)
    /\ dfs' = [dfs EXCEPT ![k] = idx]
    /\ pc' = "running"
    /\ UNCHANGED <<original_index, have_bad_index, pending, propagated>>
    /\ UNCHANGED <<keyVars, uniqueVars, collapseVars>>

\* The with-body ends normally: the generator is resumed at the yield.
Return ==
    /\ pc \in {"yielded", "running"}
    /\ pc' = "resumed"
    /\ pending' = None
    /\ UNCHANGED <<dfs, original_index, have_bad_index, propagated>>
    /\ UNCHANGED <<keyVars, uniqueVars, collapseVars>>

\* The with-body raises e: e is thrown into the generator at the yield.
Raise(e) ==
    /\ pc \in {"yielded", "running"}
    /\ pc' = "thrown"
    /\ pending' = e
    /\ UNCHANGED <<dfs, original_index, have_bad_index, propagated>>
    /\ UNCHANGED <<keyVars, uniqueVars, collapseVars>>

\* A generator without try/finally: a thrown exception skips the loop.
FinallyOnlyOnReturn ==
    /\ pc \in {"resumed", "thrown"}
    /\ dfs' = IF pc = "thrown" THEN dfs
              ELSE [k \in 1..Len(dfs) |->
                      RestoredIndex(dfs[k], have_bad_index[k], original_index[k])]
    /\ propagated' = pending
    /\ pc' = "closed"
    /\ UNCHANGED <<original_index, have_bad_index, pending>>
    /\ UNCHANGED <<keyVars, uniqueVars, collapseVars>>

\* The finally block, entered on both paths; a pending exception goes on.
Finally ==
    /\ pc \in {"resumed", "thrown"}
    /\ dfs' = [k \in 1..Len(dfs) |->
                  RestoredIndex(dfs[k], have_bad_index[k], original_index[k])]
    /\ propagated' = pending
    /\ pc' = "closed"
    /\ UNCHANGED <<original_index, have_bad_index, pending>>
    /\ UNCHANGED <<keyVars, uniqueVars, collapseVars>>

NextIndex ==
    \/ Enter
    \/ \E k \in 1..MaxDfs, idx \in Indexes : WrappedOp(k, idx)
    \/ Return
    \/ \E e \in Exceptions : Raise(e)
    \/ Finally

SpecIndex == InitIndex /\ [][NextIndex]_vars

\* The labels 0, 1, ..., n-1 in order.
RegularLabels(n) == [j \in 1..n |-> j - 1]

ExitStep == pc \in {"resumed", "thrown"} /\ pc' = "closed"

EntryStep == pc = "ready" /\ pc' = "yielded"

\* C1: a frame whose index is irregular at entry and whose row count at exit
\* equals its row count at entry has, after the scope exits, exactly the
\* labels it had before entry, whatever the with-body did.
C1_RoundTrip ==
    pc = "closed" =>
        \A k \in 1..Len(dfs) :
            (/\ ~Regular(original_index[k])
             /\ RowCount(dfs[k]) = RowCount(original_index[k]))
            => dfs[k].labels = original_index[k].labels

\* C2: on every exit path, a raise of the with-body included, the restoring
\* loop has run for every frame altered on entry (original index back where
\* the row count still matches), and what leaves the with statement is what
\* the body raised.
C2_CleanupOnRaise ==
    pc = "closed" =>
        /\ propagated = pending
        /\ \A k \in 1..Len(dfs) :
              (have_bad_index[k] /\ RowCount(dfs[k]) = RowCount(original_index[k]))
              => dfs[k] = original_index[k]

C2_Witness ==
    /\ pc = "closed"
    /\ pending # None
    /\ propagated = pending
    /\ \E k \in 1..Len(dfs) :
          have_bad_index[k] /\ dfs[k] = original_index[k] /\ RowCount(dfs[k]) > 0

\* C3 as stated: a frame that was irregular at entry (and so altered on
\* entry) and whose row count at exit differs from that at entry carries
\* the regular label sequence after exit.
C3_RegularStaysInPlace ==
    pc = "closed" =>
        \A k \in 1..Len(dfs) :
            (have_bad_index[k] /\ RowCount(dfs[k]) # RowCount(original_index[k]))
            => dfs[k].labels = RegularLabels(RowCount(dfs[k]))

\* C3 as amended: for a frame irregular at entry whose row count at exit
\* differs from that at entry, the exit step writes nothing: the recorded
\* original index is not put back and the index the with-body left stays.
C3_NoRestoreOnCountChange ==
    [][ExitStep =>
          \A k \in 1..Len(dfs) :
              (/\ ~Regular(original_index[k])
               /\ RowCount(dfs[k]) # RowCount(original_index[k]))
              => dfs'[k] = dfs[k]]_vars

C3_Witness ==
    /\ pc = "closed"
    /\ \E k \in 1..Len(dfs) :
          /\ have_bad_index[k]
          /\ RowCount(dfs[k]) # RowCount(original_index[k])
          /\ dfs[k].labels # RegularLabels(RowCount(dfs[k]))

\* C4: where regular_index yields, every frame passed to it has the row
\* labels 0..n-1, n its row count, whatever index it had at entry.
C4_RegularAtYield ==
    pc = "yielded" =>
        \A k \in 1..Len(dfs) : dfs[k].labels = RegularLabels(RowCount(dfs[k]))

\* C5: a frame whose index is regular at entry is never written by the
\* guard: the entry step leaves its index alone and does not track it, the
\* exit step leaves its index alone whatever the with-body did to it; with
\* no frames the guard writes nothing.
C5_RegularNeverWritten ==
    [][/\ EntryStep =>
            /\ \A k \in 1..Len(dfs) :
                  Regular(dfs[k]) => (dfs'[k] = dfs[k] /\ ~have_bad_index'[k])
            /\ dfs = <<>> => (dfs' = <<>> /\ have_bad_index' = <<>>)
       /\ ExitStep =>
            /\ \A k \in 1..Len(dfs) :
                  Regular(original_index[k]) => dfs'[k] = dfs[k]
            /\ dfs = <<>> => dfs' = <<>>]_vars

C5_Witness ==
    /\ pc = "closed"
    /\ \E k \in 1..Len(dfs) :
          /\ Regular(original_index[k])
          /\ ~have_bad_index[k]
          /\ dfs[k] # original_index[k]

(***************************************************************************)
(* temporary_key                                                           *)
(***************************************************************************)

\* Bound of the model: contexts open at once.
MaxDepth == 3

Keys == {"k1", "k2"}
Values == {1, 2}

Dicts == UNION {[S -> Values] : S \in SUBSET Keys}

\* d[key] = value
SetItem(dict, key, value) ==
    [x \in DOMAIN dict \cup {key} |-> IF x = key THEN value ELSE dict[x]]

\* del d[key], for a key d holds
DelItem(dict, key) == [x \in DOMAIN dict \ {key} |-> dict[x]]

InitKey ==
    /\ pc = "ready"
    /\ d \in Dicts
    /\ scopes = <<>>
    /\ tk_error = None
    /\ IdleIndex /\ IdleUnique /\ IdleCollapse

\* temporary_key(d, key, value) up to its yield
TkEnter(key, value) ==
    /\ Len(scopes) < MaxDepth
    /\ d' = SetItem(d, key, value)
    /\ scopes' = Append(scopes, [key |-> key, value |-> value])
    /\ UNCHANGED <<pc, tk_error>>
    /\ UNCHANGED <<indexVars, uniqueVars, collapseVars>>

\* The innermost open context closes: del d[key], a KeyError when d does not
\* hold key.
TkExit ==
    /\ scopes # <<>>
    /\ LET top == scopes[Len(scopes)]
       IN IF top.key \in DOMAIN d
          THEN d' = DelItem(d, top.key) /\ tk_error' = tk_error
          ELSE d' = d /\ tk_error' = "KeyError"
    /\ scopes' = SubSeq(scopes, 1, Len(scopes) - 1)
    /\ UNCHANGED pc
    /\ UNCHANGED <<indexVars, uniqueVars, collapseVars>>

NextKey ==
    \/ \E key \in Keys, value \in Values : TkEnter(key, value)
    \/ TkExit

SpecKey == InitKey /\ [][NextKey]_vars

\* C10: while a temporary_key context is open, the dictionary holds its key.
C10_HoldsKeyWhileOpen ==
    \A j \in 1..Len(scopes) : scopes[j].key \in DOMAIN d

(***************************************************************************)
(* unique                                                                  *)
(***************************************************************************)

\* Bound of the model: length of the list.
MaxLen == 4

Elems == {"x", "y", "z"}

\* make_seen(x): seen.add(x)
make_seen_forgets(seen, x) == seen
make_seen(seen, x) == seen \cup {x}

\* [make_seen(x) for x in lst if x not in seen], from position i on
RECURSIVE unique_from(_, _, _)
unique_from(l, i, seen) ==
    IF i > Len(l) THEN <<>>
    ELSE IF l[i] \notin seen
         THEN <<l[i]>> \o unique_from(l, i + 1, make_seen(seen, l[i]))
         ELSE unique_from(l, i + 1, seen)

unique(l) == unique_from(l, 1, {})

InitUnique ==
    /\ pc = "ready"
    /\ lst \in SeqsUpTo(Elems, MaxLen)
    /\ u_out = <<>>
    /\ IdleIndex /\ IdleKey /\ IdleCollapse

\* out = unique(lst)
CallUnique ==
    /\ pc = "ready"
    /\ u_out' = unique(lst)
    /\ pc' = "done"
    /\ UNCHANGED lst
    /\ UNCHANGED <<indexVars, keyVars, collapseVars>>

NextUnique == CallUnique

SpecUnique == InitUnique /\ [][NextUnique]_vars

\* Position of the first occurrence of e in l.
FirstPos(l, e) == CHOOSE i \in 1..Len(l) : l[i] = e /\ \A j \in 1..(i - 1) : l[j] # e

\* C9: unique returns each distinct element of its argument exactly once, in
\* the order of first occurrence; so unique of the result is the result, and
\* ['x','y','x','z'] gives ['x','y','z'].
C9_UniqueFirstSeenOrder ==
    pc = "done" =>
        /\ {u_out[i] : i \in 1..Len(u_out)} = {lst[i] : i \in 1..Len(lst)}
        /\ \A i, j \in 1..Len(u_out) : i # j => u_out[i] # u_out[j]
        /\ \A i, j \in 1..Len(u_out) :
              i < j => FirstPos(lst, u_out[i]) < FirstPos(lst, u_out[j])
        /\ unique(u_out) = u_out
        /\ lst = <<"x", "y", "x", "z">> => u_out = <<"x", "y", "z">>

C9_Witness ==
    /\ pc = "done"
    /\ lst = <<"x", "y", "x", "z">>
    /\ u_out = <<"x", "y", "z">>

(***************************************************************************)
(* collapse_multiindex                                                     *)
(***************************************************************************)

\* Bounds of the model: columns and levels of the MultiIndex.
MaxCols == 3
MaxLevels == 2

\* The strings "", "a" and "a_a", and the separators "_" and "".
Tokens == {<<>>, <<"a">>, <<"a", "_", "a">>}
Separators == {<<"_">>, <<>>}

\* A MultiIndex of n columns by L levels; duplicate columns are allowed.
IsMultiIndex(m) ==
    \E L \in 1..MaxLevels, n \in 0..MaxCols :
        \E c \in [1..n -> [1..L -> Tokens]] : m = [nlevels |-> L, cols |-> c]

\* The MultiIndexes of the docstring and of the comment in the function.
M1 == [nlevels |-> 2, cols |-> << <<<<"a">>, <<"1">>>>, <<<<"a">>, <<"2">>>> >>]
M2 == [nlevels |-> 2,
       cols |-> << <<<<"a">>, <<"1">>>>, <<<<"a">>, <<"2">>>>,
                   <<<<"b">>, <<"1">>>>, <<<<"b">>, <<"2">>>> >>]
M3 == [nlevels |-> 3,
       cols |-> << <<<<"z">>, <<"a">>, <<"1">>>>, <<<<"z">>, <<"a">>, <<"2">>>>,
                   <<<<"z">>, <<"b">>, <<"1">>>>, <<<<"z">>, <<"b">>, <<"2">>>> >>]
DocExamples == {M1, M2, M3}

\* len(set(lst)) == len(lst)
is_unique_le(l) == Cardinality({l[k] : k \in 1..Len(l)}) <= Len(l)
is_unique(l) == Cardinality({l[k] : k \in 1..Len(l)}) = Len(l)

\* x[-m:]
last_tokens(x, m) == IF m >= Len(x) THEN x ELSE SubSeq(x, Len(x) - m + 1, Len(x))

\* x[:m]
first_tokens(x, m) == IF m >= Len(x) THEN x ELSE SubSeq(x, 1, m)

\* [x[-(1+i):] for x in midx]
id_tokens_prefix(cols, i) == [k \in 1..Len(cols) |-> first_tokens(cols[k], 1 + i)]
id_tokens(cols, i) == [k \in 1..Len(cols) |-> last_tokens(cols[k], 1 + i)]

\* for i in range(midx.nlevels): ... break; -1 stands for the else branch
RECURSIVE first_unique(_, _, _)
first_unique(cols, nlevels, i) ==
    IF i >= nlevels THEN -1
    ELSE IF is_unique(id_tokens(cols, i)) THEN i
    ELSE first_unique(cols, nlevels, i + 1)

\* sep.join(toks)
RECURSIVE join(_, _)
join(s, toks) ==
    IF toks = <<>> THEN <<>>
    ELSE IF Len(toks) = 1 THEN toks[1]
    ELSE toks[1] \o s \o join(s, Tail(toks))

CannotCreate == "ValueError: Cannot create unique column names."

collapse_multiindex(m, s) ==
    LET i == first_unique(m.cols, m.nlevels, 0)
    IN IF i = -1
       THEN [raised |-> CannotCreate, columns |-> <<>>]
       ELSE [raised |-> None,
             columns |-> [k \in 1..Len(m.cols) |-> join(s, id_tokens(m.cols, i)[k])]]

InitCollapse ==
    /\ pc = "ready"
    /\ IsMultiIndex(midx) \/ midx \in DocExamples
    /\ sep \in Separators
    /\ cm_out = [raised |-> None, columns |-> <<>>]
    /\ IdleIndex /\ IdleKey /\ IdleUnique

\* cm_out = collapse_multiindex(midx, sep), or the ValueError it raises
CallCollapse ==
    /\ pc = "ready"
    /\ cm_out' = collapse_multiindex(midx, sep)
    /\ pc' = "done"
    /\ UNCHANGED <<midx, sep>>
    /\ UNCHANGED <<indexVars, keyVars, uniqueVars>>

NextCollapse == CallCollapse

SpecCollapse == InitCollapse /\ [][NextCollapse]_vars

NCols == Len(midx.cols)

\* The last i tokens of column k.
Suffix(k, i) == [j \in 1..i |-> midx.cols[k][midx.nlevels - i + j]]

\* The last i tokens tell every two columns apart.
SuffixesDistinct(i) ==
    \A a, b \in 1..NCols : a # b => Suffix(a, i) # Suffix(b, i)

\* C6: when collapse_multiindex returns, the result has one string per
\* column, and the strings are pairwise distinct.
C6_ReturnsDistinctNames ==
    (pc = "done" /\ cm_out.raised = None) =>
        /\ Len(cm_out.columns) = NCols
        /\ \A a, b \in 1..NCols : a # b => cm_out.columns[a] # cm_out.columns[b]

\* C7: when collapse_multiindex returns, every column's string is the
\* separator-join of its last i tokens, for the one smallest i in 1..L whose
\* suffix tuples are pairwise distinct; the docstring's two examples give
\* ['1','2'] and ['a_1','a_2','b_1','b_2'].
C7_MinimalSuffix ==
    (pc = "done" /\ cm_out.raised = None) =>
        /\ \E i \in 1..midx.nlevels :
              /\ SuffixesDistinct(i)
              /\ \A j \in 1..(i - 1) : ~SuffixesDistinct(j)
              /\ cm_out.columns = [k \in 1..NCols |-> join(sep, Suffix(k, i))]
        /\ (midx = M1 /\ sep = <<"_">>) => cm_out.columns = << <<"1">>, <<"2">> >>
        /\ (midx = M2 /\ sep = <<"_">>) =>
              cm_out.columns = << <<"a", "_", "1">>, <<"a", "_", "2">>,
                                  <<"b", "_", "1">>, <<"b", "_", "2">> >>

C7_Witness ==
    /\ pc = "done"
    /\ midx = M2
    /\ sep = <<"_">>
    /\ cm_out.columns = << <<"a", "_", "1">>, <<"a", "_", "2">>,
                           <<"b", "_", "1">>, <<"b", "_", "2">> >>

\* C8: collapse_multiindex raises 'Cannot create unique column names' exactly
\* when two columns have the same full-length label tuple.
C8_RaisesIffDuplicateTuples ==
    pc = "done" =>
        /\ cm_out.raised \in {None, CannotCreate}
        /\ cm_out.raised = CannotCreate
              <=> \E a, b \in 1..NCols : a # b /\ midx.cols[a] = midx.cols[b]

C8_Witness ==
    /\ pc = "done"
    /\ cm_out.raised = CannotCreate
    /\ midx.nlevels = 2
    /\ NCols = 3
    /\ midx.cols[1] # midx.cols[2]
    /\ midx.cols[1] = midx.cols[3]

====
